---- MODULE Spec2Model ----
(***************************************************************************)
(* Blog-App backend: the express routers of server/routes (auth, users,   *)
(* posts, comments) over three mongoose collections, with the jwt cookie  *)
(* gate in front of the mutating routes.  A request occupies a slot: it   *)
(* runs its route's synchronous prefix (gate, validators) when it starts  *)
(* and then one step per awaited data-store or bcrypt call, so requests   *)
(* interleave at exactly the suspension points of the handlers.           *)
(***************************************************************************)
EXTENDS Integers, FiniteSets, Sequences, TLC

\* ------------------------------------------------------------------ bounds
MaxNew == 1         \* documents created in one behaviour
MaxTicks == 1       \* token lifetimes the clock may advance
MaxFaults == 1      \* data-store / bcrypt failures injected in one behaviour
NSalts == 1         \* distinct salts bcrypt.genSalt may return

\* -------------------------------------------------------- program constants
ExpiresInDays == 3  \* jwt.sign(..., { expiresIn: "3d" })
MinPassword == 6    \* body("password").isLength({ min: 6 })
MinUsername == 3    \* body("username").isLength({ min: 3 }) on PUT /api/users/:id

Secret == "SECRET"  \* process.env.SECRET

\* ------------------------------------------------------------ input values
\* Strings are modelled by what the validators and queries read: a username
\* and an email by their text (BadEmail is no address, ShortName has two
\* letters), a plaintext password by its length, an id by a number (BadId is
\* a string that is no ObjectId, NoId a missing field).
BadId == 1 - 1
NoId == 0 - 1
ShortName == "al"
BadEmail == "nomail"
ShortPw == MinPassword - 1
Salts == 1..NSalts
\* Titles and search terms are character sequences, so that the $regex search
\* is computed on them.
Title1 == <<"t", "1">>
Title2 == <<"t", "2">>
NoText == <<>>

VARIABLES users, posts, comments, nextId, now, req, cookie, issued, faults

vars == <<users, posts, comments, nextId, now, req, cookie, issued, faults>>
stores == <<users, posts, comments>>

\* Three request slots; the serial specifications use the first one only.
Slots == {1, 2, 3}

\* ------------------------------------------------------------------ bcrypt
\* A hash is a negative number that carries its salt and the hashed
\* plaintext; plaintexts are non-negative, so no plaintext is a hash.
PwSpan == MinPassword + 2
bcryptHash(pw, salt) == 0 - (salt * PwSpan + pw)
SaltOf(h) == (0 - h) \div PwSpan
bcryptCompare(pw, h) == h < 0 /\ bcryptHash(pw, SaltOf(h)) = h

\* --------------------------------------------------------------------- jwt
NoToken == [_id |-> BadId, username |-> "", email |-> "", exp |-> 0, mac |-> <<"none">>]
Mac(c, exp, key) == <<key, c._id, c.username, c.email, exp>>
jwtSign(c, key, t) ==
  [_id |-> c._id, username |-> c.username, email |-> c.email,
   exp |-> t + ExpiresInDays, mac |-> Mac(c, t + ExpiresInDays, key)]
Claims(tok) == [_id |-> tok._id, username |-> tok.username, email |-> tok.email]
\* Variant: a token is refused once no stored User has its _id.
jwtVerify_lookup(tok, key, t) ==
  IF tok = NoToken THEN "missing"
  ELSE IF tok.mac # Mac(tok, tok.exp, key) THEN "invalid"
  ELSE IF t >= tok.exp THEN "expired"
  ELSE IF \A u \in users : u._id # tok._id THEN "invalid"
  ELSE "ok"
\* "ok", or the error jwt.verify reports: the signature is checked before exp.
jwtVerify(tok, key, t) ==
  IF tok = NoToken THEN "missing"
  ELSE IF tok.mac # Mac(tok, tok.exp, key) THEN "invalid"
  ELSE IF t >= tok.exp THEN "expired"
  ELSE "ok"
\* A token whose payload was altered after signing (its expiry pushed back):
\* the mac no longer matches.
Tamper(tok) == [tok EXCEPT !.exp = tok.exp + ExpiresInDays]
\* A token signed without the secret.
Forged(t) == jwtSign([_id |-> 1, username |-> "ann", email |-> "a@x.io"], "guess", t)

\* What a client puts in the "token" cookie of a request to a gated route:
\* nothing, the token last issued (possibly expired by now), or a token of
\* its own making.
Presentable ==
  {NoToken, issued} \cup (IF issued = NoToken THEN {Forged(now)} ELSE {Tamper(issued)})
\* A request the gate rejects is sent with one of a few probe payloads.
Sent(tok, payload, probes) == jwtVerify(tok, Secret, now) = "ok" \/ payload \in probes

\* ------------------------------------------------------------- collections
FindById(coll, id) == {d \in coll : d._id = id}
\* The unique indexes of the User schema (username, email).
\* Variant: a schema without the unique indexes.
UniqueViolation_none(coll, doc) == FALSE
UniqueViolation(coll, doc) ==
  \E d \in coll : d._id # doc._id /\ (d.username = doc.username \/ d.email = doc.email)
\* { $set: body } applied to one document.
SetFields(doc, body) ==
  [f \in DOMAIN doc |-> IF f \in DOMAIN body THEN body[f] ELSE doc[f]]
StripPassword(doc) == [f \in DOMAIN doc \ {"password"} |-> doc[f]]

NewUser(id, b, hashed) ==
  [_id |-> id, username |-> b.username, email |-> b.email, password |-> hashed]
NewPost(id, b) ==
  [_id |-> id, title |-> b.title, desc |-> b.desc, username |-> b.username,
   userId |-> b.userId]
NewComment(id, b) ==
  [_id |-> id, comment |-> b.comment, author |-> b.author, postId |-> b.postId,
   userId |-> b.userId]

\* ------------------------------------------------------------ the database
\* The server starts on whatever the database holds: nothing, or a small
\* blog of two users, two posts and three comments, written by the routes
\* below (NewUser, NewPost, NewComment).
Ann == [username |-> "ann", email |-> "a@x.io", password |-> MinPassword]
Bob == [username |-> "bob", email |-> "b@x.io", password |-> MinPassword + 1]
BlogUsers ==
  {NewUser(1, Ann, bcryptHash(Ann.password, 1)), NewUser(2, Bob, bcryptHash(Bob.password, 1))}
BlogPosts ==
  {NewPost(3, [title |-> Title1, desc |-> "d1", username |-> "ann", userId |-> 1]),
   NewPost(4, [title |-> Title1, desc |-> "d1", username |-> "bob", userId |-> 2])}
BlogComments ==
  {NewComment(5, [comment |-> "c1", author |-> "ann", postId |-> 3, userId |-> 1]),
   NewComment(6, [comment |-> "c1", author |-> "bob", postId |-> 3, userId |-> 2]),
   NewComment(7, [comment |-> "c1", author |-> "ann", postId |-> 4, userId |-> 1])}
EmptyDb == <<{}, {}, {}>>
\* The database after the first registration.
AnnDb == <<{u \in BlogUsers : u._id = 1}, {}, {}>>
BlogDb == <<BlogUsers, BlogPosts, BlogComments>>
\* The ObjectIds in use before the server starts.
SeedTop == Cardinality(BlogUsers) + Cardinality(BlogPosts) + Cardinality(BlogComments)
Fresh == SeedTop + 1
\* The :id values requests are sent with.
UserIds == {1, 2, Fresh, BadId}
PostIds == {3, 4, Fresh, BadId}
CommentIds == {5, 6, Fresh, BadId}

\* ---------------------------------------------------------------- requests
NoBody == [none |-> TRUE]
NoMemo == [kind |-> "none", id |-> BadId, post |-> EmptyDb]
IdleReq ==
  [kind |-> "none", pc |-> "idle", tok |-> NoToken, at |-> 0, id |-> BadId,
   body |-> NoBody, status |-> 0, out |-> NoBody, found |-> {}, hashed |-> 0,
   setCookie |-> NoToken, sent |-> 0, failed |-> "none",
   solo |-> TRUE, pre |-> EmptyDb, inj |-> FALSE, again |-> FALSE, memo |-> NoMemo]

InFlight(r) == req[r].pc \notin {"idle", "done"}
Free(r) == req[r].pc = "idle"
DeleteKinds == {"users_delete", "posts_delete", "comments_delete"}

\* A request enters slot r.  sent counts the responses written to it.
\* History fields: failed (the await that rejected), solo (no other request in
\* flight from its start on), pre (the stores it started from), again (it
\* repeats the DELETE this slot answered last, on the stores that DELETE
\* left).
Enter(r, kind, tok, id, body, pc, status, out) ==
  req' = [q \in Slots |->
            IF q = r
            THEN [IdleReq EXCEPT !.kind = kind, !.pc = pc, !.tok = tok, !.at = now,
                                 !.id = id, !.body = body, !.status = status, !.out = out,
                                 !.sent = IF pc = "done" THEN 1 ELSE 0,
                                 !.solo = \A p \in Slots \ {r} : ~InFlight(p),
                                 !.pre = stores,
                                 !.again = /\ req[r].memo.kind = kind
                                           /\ req[r].memo.id = id
                                           /\ req[r].memo.post = stores]
            ELSE IF InFlight(q) THEN [req[q] EXCEPT !.solo = FALSE] ELSE req[q]]

Respond(r, status, out) ==
  req' = [req EXCEPT ![r].pc = "done", ![r].status = status, ![r].out = out,
                     ![r].sent = req[r].sent + 1]
Goto(r, pc) == req' = [req EXCEPT ![r].pc = pc]

\* The response has been sent: the slot is free again.  It remembers a
\* DELETE it ran alone and answered 200, with the stores that DELETE left.
Close(r) ==
  /\ req[r].pc = "done"
  /\ req' = [req EXCEPT ![r] =
       [IdleReq EXCEPT !.memo =
          IF req[r].kind \in DeleteKinds /\ req[r].solo /\ req[r].status = 200
          THEN [kind |-> req[r].kind, id |-> req[r].id, post |-> stores]
          ELSE NoMemo]]
  /\ UNCHANGED <<users, posts, comments, nextId, now, cookie, issued, faults>>

InitDb(db) ==
  /\ users = db[1] /\ posts = db[2] /\ comments = db[3]
  /\ nextId = Fresh /\ now = 0
  /\ req = [r \in Slots |-> IdleReq]
  /\ cookie = NoToken /\ issued = NoToken
  /\ faults = MaxFaults
Init == InitDb(AnnDb)
\* The blog, with Ann logged in: her browser holds the token of that login.
InitBlog ==
  /\ users = BlogUsers /\ posts = BlogPosts /\ comments = BlogComments
  /\ nextId = Fresh /\ now = 0
  /\ req = [r \in Slots |-> IdleReq]
  /\ \E u \in FindById(BlogUsers, 1) :
       /\ cookie = jwtSign(Claims(u), Secret, 0)
       /\ issued = jwtSign(Claims(u), Secret, 0)
  /\ faults = MaxFaults
\* The blog, with Bob logged in.
InitBlogBob ==
  /\ users = BlogUsers /\ posts = BlogPosts /\ comments = BlogComments
  /\ nextId = Fresh /\ now = 0
  /\ req = [r \in Slots |-> IdleReq]
  /\ \E u \in FindById(BlogUsers, 2) :
       /\ cookie = jwtSign(Claims(u), Secret, 0)
       /\ issued = jwtSign(Claims(u), Secret, 0)
  /\ faults = MaxFaults

\* The clock advances by a token lifetime.
Tick ==
  /\ now < MaxTicks * ExpiresInDays
  /\ now' = now + ExpiresInDays
  /\ UNCHANGED <<users, posts, comments, nextId, req, cookie, issued, faults>>

\* A data-store or bcrypt call of the request in slot r rejects: every handler
\* awaits inside try/catch and answers 500 from the catch block.
\* Variant: the catch block restores the stores the request started from.
Throw_rollback(r) ==
  /\ InFlight(r)
  /\ faults > 0
  /\ faults' = faults - 1
  /\ users' = req[r].pre[1] /\ posts' = req[r].pre[2] /\ comments' = req[r].pre[3]
  /\ req' = [req EXCEPT ![r].pc = "done", ![r].status = 500,
                        ![r].out = [error |-> "store"], ![r].inj = TRUE,
                        ![r].failed = req[r].pc, ![r].sent = req[r].sent + 1]
  /\ UNCHANGED <<nextId, now, cookie, issued>>
\* Variant: the rejection is not caught and no response is written.
Throw_hang(r) ==
  /\ InFlight(r)
  /\ faults > 0
  /\ faults' = faults - 1
  /\ req' = [req EXCEPT ![r].pc = "hung", ![r].inj = TRUE, ![r].failed = req[r].pc]
  /\ UNCHANGED <<users, posts, comments, nextId, now, cookie, issued>>
Throw(r) ==
  /\ InFlight(r)
  /\ faults > 0
  /\ faults' = faults - 1
  /\ req' = [req EXCEPT ![r].pc = "done", ![r].status = 500,
                        ![r].out = [error |-> "store"], ![r].inj = TRUE,
                        ![r].failed = req[r].pc, ![r].sent = req[r].sent + 1]
  /\ UNCHANGED <<users, posts, comments, nextId, now, cookie, issued>>

\* ------------------------------------------------------------ routes/auth.js
IsEmail(e) == e # BadEmail /\ e # ""
registerValid(b) ==
  /\ b.username # ""
  /\ IsEmail(b.email)
  /\ b.password >= MinPassword
loginValid(b) == IsEmail(b.email) /\ b.password > 0

RegisterBodies ==
  {[username |-> un, email |-> em, password |-> MinPassword] :
     un \in {"ann", "cat"}, em \in {"a@x.io", "c@x.io"}}
    \cup {[username |-> "", email |-> "c@x.io", password |-> MinPassword],
          [username |-> "cat", email |-> BadEmail, password |-> MinPassword],
          [username |-> "cat", email |-> "c@x.io", password |-> ShortPw]}
LoginBodies ==
  {[email |-> em, password |-> pw] :
     em \in {"a@x.io", "c@x.io"}, pw \in {MinPassword, MinPassword + 1}}
    \cup {[email |-> "b@x.io", password |-> MinPassword + 1],
          [email |-> BadEmail, password |-> MinPassword],
          [email |-> "a@x.io", password |-> 0]}

\* Variant: handleValidationErrors calls next() whatever the result.
Register_unchecked(r) ==
  /\ Free(r)
  /\ \E b \in RegisterBodies :
       Enter(r, "register", NoToken, BadId, b, "reg_find", 0, NoBody)
  /\ UNCHANGED <<users, posts, comments, nextId, now, cookie, issued, faults>>
\* POST /api/auth/register: validation, then the handler up to User.findOne.
Register(r) ==
  /\ Free(r)
  /\ \E b \in RegisterBodies :
       IF registerValid(b)
       THEN Enter(r, "register", NoToken, BadId, b, "reg_find", 0, NoBody)
       ELSE Enter(r, "register", NoToken, BadId, b, "done", 400, [error |-> "validation"])
  /\ UNCHANGED <<users, posts, comments, nextId, now, cookie, issued, faults>>

\* Variant: the lookup reads the email only.
RegisterExisting_emailOnly(coll, b) == {u \in coll : u.email = b.email}
RegisterExisting(coll, b) ==
  {u \in coll : u.username = b.username \/ u.email = b.email}

RegisterFindOne(r) ==
  /\ req[r].pc = "reg_find"
  /\ IF RegisterExisting(users, req[r].body) # {}
     THEN Respond(r, 400, [message |-> "Username or email is already registered"])
     ELSE Goto(r, "reg_hash")
  /\ UNCHANGED <<users, posts, comments, nextId, now, cookie, issued, faults>>

RegisterHash(r) ==
  /\ req[r].pc = "reg_hash"
  /\ \E salt \in Salts :
       req' = [req EXCEPT ![r].pc = "reg_save",
                          ![r].hashed = bcryptHash(req[r].body.password, salt)]
  /\ UNCHANGED <<users, posts, comments, nextId, now, cookie, issued, faults>>

\* newUser.save(): the unique indexes reject a duplicate, which the handler
\* catches and answers with 500.
RegisterSave(r) ==
  /\ req[r].pc = "reg_save"
  /\ LET doc == NewUser(nextId, req[r].body, req[r].hashed) IN
     IF UniqueViolation(users, doc)
     THEN /\ Respond(r, 500, [error |-> "E11000"])
          /\ UNCHANGED <<users, nextId>>
     ELSE /\ nextId < Fresh + MaxNew
          /\ nextId' = nextId + 1
          /\ users' = users \cup {doc}
          /\ Respond(r, 201, doc)
  /\ UNCHANGED <<posts, comments, now, cookie, issued, faults>>

\* POST /api/auth/login
Login(r) ==
  /\ Free(r)
  /\ \E b \in LoginBodies :
       IF loginValid(b)
       THEN Enter(r, "login", NoToken, BadId, b, "login_find", 0, NoBody)
       ELSE Enter(r, "login", NoToken, BadId, b, "done", 400, [error |-> "validation"])
  /\ UNCHANGED <<users, posts, comments, nextId, now, cookie, issued, faults>>

LoginFindOne(r) ==
  /\ req[r].pc = "login_find"
  /\ LET hit == {u \in users : u.email = req[r].body.email} IN
     IF hit = {}
     THEN Respond(r, 404, [message |-> "User not found!"])
     ELSE \E u \in hit : req' = [req EXCEPT ![r].pc = "login_compare", ![r].found = {u}]
  /\ UNCHANGED <<users, posts, comments, nextId, now, cookie, issued, faults>>

\* bcrypt.compare, then jwt.sign and the response: the cookie is set only here.
\* Variant: the payload takes the username from the email field.
LoginToken_swapped(user, t) ==
  jwtSign([_id |-> user._id, username |-> user.email, email |-> user.email], Secret, t)
LoginToken(user, t) == jwtSign(Claims(user), Secret, t)
LoginInfo(user) == StripPassword(user)

\* Variant: the result of bcrypt.compare is not read.
LoginMatch_any(password, user) == TRUE
LoginMatch(password, user) == bcryptCompare(password, user.password)

LoginCompare(r) ==
  /\ req[r].pc = "login_compare"
  /\ \E user \in req[r].found :
       IF ~LoginMatch(req[r].body.password, user)
       THEN /\ Respond(r, 401, [message |-> "Wrong credentials!"])
            /\ UNCHANGED <<cookie, issued>>
       ELSE /\ cookie' = LoginToken(user, now)
            /\ issued' = LoginToken(user, now)
            /\ req' = [req EXCEPT ![r].pc = "done", ![r].status = 200,
                                  ![r].out = LoginInfo(user),
                                  ![r].sent = req[r].sent + 1,
                                  ![r].setCookie = LoginToken(user, now)]
  /\ UNCHANGED <<users, posts, comments, nextId, now, faults>>

\* GET /api/auth/logout: clears the cookie, no await.
Logout(r) ==
  /\ Free(r)
  /\ cookie' = NoToken
  /\ Enter(r, "logout", cookie, BadId, NoBody, "done", 200, [message |-> "User logged out successfully!"])
  /\ UNCHANGED <<users, posts, comments, nextId, now, issued, faults>>

\* GET /api/auth/refetch: jwt.verify with a synchronous callback.
jwtDecode(tok) == [_id |-> tok._id, username |-> tok.username, email |-> tok.email, exp |-> tok.exp]
\* Variant: the callback does not read err.
Refetch_noErr(r) ==
  /\ Free(r)
  /\ \E tok \in Presentable :
       Enter(r, "refetch", tok, BadId, NoBody, "done", 200, jwtDecode(tok))
  /\ UNCHANGED <<users, posts, comments, nextId, now, cookie, issued, faults>>
Refetch(r) ==
  /\ Free(r)
  /\ \E tok \in Presentable :
       IF jwtVerify(tok, Secret, now) = "ok"
       THEN Enter(r, "refetch", tok, BadId, NoBody, "done", 200, jwtDecode(tok))
       ELSE Enter(r, "refetch", tok, BadId, NoBody, "done", 404, [error |-> jwtVerify(tok, Secret, now)])
  /\ UNCHANGED <<users, posts, comments, nextId, now, cookie, issued, faults>>

\* ------------------------------------------------- middleware/verifyToken.js
\* The gate in front of every mutating route: no cookie, or a token that
\* jwt.verify rejects, ends the request before validation and the handler.
Admitted(tok, t) == jwtVerify(tok, Secret, t) = "ok"
GateStatus == 401
GateOut(tok, t) ==
  IF tok = NoToken THEN [error |-> "Unauthenticated"] ELSE [error |-> "TokenInvalid"]
\* The three ways a protected route starts: rejected by the gate, rejected by
\* its validators, or suspended at the first await of its handler.
\* Variant: the validators are mounted in front of verifyToken.
Protected_validateFirst(r, kind, tok, id, body, valid, pc) ==
  IF ~valid
  THEN Enter(r, kind, tok, id, body, "done", 400, [error |-> "validation"])
  ELSE IF ~Admitted(tok, now)
  THEN Enter(r, kind, tok, id, body, "done", GateStatus, GateOut(tok, now))
  ELSE Enter(r, kind, tok, id, body, pc, 0, NoBody)
Protected(r, kind, tok, id, body, valid, pc) ==
  IF ~Admitted(tok, now)
  THEN Enter(r, kind, tok, id, body, "done", GateStatus, GateOut(tok, now))
  ELSE IF ~valid
  THEN Enter(r, kind, tok, id, body, "done", 400, [error |-> "validation"])
  ELSE Enter(r, kind, tok, id, body, pc, 0, NoBody)
Public(r, kind, tok, id, body, valid, pc) ==
  IF ~valid
  THEN Enter(r, kind, tok, id, body, "done", 400, [error |-> "validation"])
  ELSE Enter(r, kind, tok, id, body, pc, 0, NoBody)

IsMongoId(id) == id > 0
Has(b, f) == f \in DOMAIN b

\* ----------------------------------------------------------- routes/users.js
NameLen(u) == IF u = "" THEN 0 ELSE IF u = ShortName THEN MinUsername - 1 ELSE MinUsername
userPutValid(id, b) ==
  /\ IsMongoId(id)
  /\ Has(b, "password") => b.password >= MinPassword
  /\ Has(b, "email") => IsEmail(b.email)
  /\ Has(b, "username") => NameLen(b.username) >= MinUsername

\* The request bodies of PUT /api/users/:id: any subset of the three fields.
UserBodies ==
  {NoBody, [username |-> "bob"], [username |-> ShortName], [email |-> "c@x.io"],
   [email |-> BadEmail], [password |-> MinPassword + 1], [password |-> ShortPw]}
UserProbes == {<<1, [username |-> "bob"]>>, <<BadId, [email |-> BadEmail]>>}

\* Variant: the route is mounted without verifyToken.
UsersPut_open(r) ==
  /\ Free(r)
  /\ \E tok \in Presentable, id \in UserIds, b \in UserBodies :
       /\ Sent(tok, <<id, b>>, UserProbes)
       /\ Public(r, "users_put", tok, id, b, userPutValid(id, b),
                 IF Has(b, "password") THEN "uput_hash" ELSE "uput_update")
  /\ UNCHANGED <<users, posts, comments, nextId, now, cookie, issued, faults>>
UsersPut(r) ==
  /\ Free(r)
  /\ \E tok \in Presentable, id \in UserIds, b \in UserBodies :
       /\ Sent(tok, <<id, b>>, UserProbes)
       /\ Protected(r, "users_put", tok, id, b, userPutValid(id, b),
                    IF Has(b, "password") THEN "uput_hash" ELSE "uput_update")
  /\ UNCHANGED <<users, posts, comments, nextId, now, cookie, issued, faults>>

\* req.body.password = await bcrypt.hash(req.body.password, salt)
\* Variant: the password goes into the update as it came.
UsersPutHash_plain(r) ==
  /\ req[r].pc = "uput_hash"
  /\ Goto(r, "uput_update")
  /\ UNCHANGED <<users, posts, comments, nextId, now, cookie, issued, faults>>
UsersPutHash(r) ==
  /\ req[r].pc = "uput_hash"
  /\ \E salt \in Salts :
       req' = [req EXCEPT ![r].pc = "uput_update",
                          ![r].body.password = bcryptHash(req[r].body.password, salt)]
  /\ UNCHANGED <<users, posts, comments, nextId, now, cookie, issued, faults>>

\* User.findByIdAndUpdate(id, { $set: req.body }, { new: true })
UsersPutUpdate(r) ==
  /\ req[r].pc = "uput_update"
  /\ LET hit == FindById(users, req[r].id) IN
     IF hit = {}
     THEN /\ Respond(r, 200, NoBody)
          /\ users' = users
     ELSE \E u \in hit :
            LET doc == SetFields(u, req[r].body) IN
            IF UniqueViolation(users, doc)
            THEN /\ Respond(r, 500, [error |-> "E11000"])
                 /\ users' = users
            ELSE /\ users' = (users \ {u}) \cup {doc}
                 /\ Respond(r, 200, doc)
  /\ UNCHANGED <<posts, comments, nextId, now, cookie, issued, faults>>

IdProbes == {1, BadId}

UsersDelete(r) ==
  /\ Free(r)
  /\ \E tok \in Presentable, id \in UserIds :
       /\ Sent(tok, id, IdProbes)
       /\ Protected(r, "users_delete", tok, id, NoBody, IsMongoId(id), "udel_find")
  /\ UNCHANGED <<users, posts, comments, nextId, now, cookie, issued, faults>>

\* Variant: no existence check before the deletes.
UsersDeleteFind_skip(r) ==
  /\ req[r].pc = "udel_find"
  /\ Goto(r, "udel_user")
  /\ UNCHANGED <<users, posts, comments, nextId, now, cookie, issued, faults>>
\* Variant: without a User record the dependents are still cleaned up.
UsersDeleteFind_cleanup(r) ==
  /\ req[r].pc = "udel_find"
  /\ IF FindById(users, req[r].id) = {}
     THEN Goto(r, "udel_posts")
     ELSE Goto(r, "udel_user")
  /\ UNCHANGED <<users, posts, comments, nextId, now, cookie, issued, faults>>
UsersDeleteFind(r) ==
  /\ req[r].pc = "udel_find"
  /\ IF FindById(users, req[r].id) = {}
     THEN Respond(r, 404, [message |-> "User not found"])
     ELSE Goto(r, "udel_user")
  /\ UNCHANGED <<users, posts, comments, nextId, now, cookie, issued, faults>>

\* Variant: the user and the user's posts go in one step.
UsersDeleteUser_cascade(r) ==
  /\ req[r].pc = "udel_user"
  /\ users' = users \ FindById(users, req[r].id)
  /\ posts' = {p \in posts : p.userId # req[r].id}
  /\ Goto(r, "udel_posts")
  /\ UNCHANGED <<comments, nextId, now, cookie, issued, faults>>
UsersDeleteUser(r) ==
  /\ req[r].pc = "udel_user"
  /\ users' = users \ FindById(users, req[r].id)
  /\ Goto(r, "udel_posts")
  /\ UNCHANGED <<posts, comments, nextId, now, cookie, issued, faults>>

\* Model.deleteMany({ field: value })
DeleteMany(coll, field, value) == {d \in coll : d[field] # value}

\* Variant: the filter names the post's own id.
UsersDeletePosts_byId(r) ==
  /\ req[r].pc = "udel_posts"
  /\ posts' = DeleteMany(posts, "_id", req[r].id)
  /\ Goto(r, "udel_comments")
  /\ UNCHANGED <<users, comments, nextId, now, cookie, issued, faults>>
UsersDeletePosts(r) ==
  /\ req[r].pc = "udel_posts"
  /\ posts' = DeleteMany(posts, "userId", req[r].id)
  /\ Goto(r, "udel_comments")
  /\ UNCHANGED <<users, comments, nextId, now, cookie, issued, faults>>

UsersDeleteComments(r) ==
  /\ req[r].pc = "udel_comments"
  /\ comments' = DeleteMany(comments, "userId", req[r].id)
  /\ Respond(r, 200, [message |-> "User has been deleted!"])
  /\ UNCHANGED <<users, posts, nextId, now, cookie, issued, faults>>

UsersGet(r) ==
  /\ Free(r)
  /\ \E tok \in {cookie}, id \in UserIds :
       Public(r, "users_get", tok, id, NoBody, IsMongoId(id), "uget_find")
  /\ UNCHANGED <<users, posts, comments, nextId, now, cookie, issued, faults>>

\* Variant: the document is sent as stored.
UserInfo_raw(user) == user
UserInfo(user) == StripPassword(user)

UsersGetFind(r) ==
  /\ req[r].pc = "uget_find"
  /\ LET hit == FindById(users, req[r].id) IN
     IF hit = {}
     THEN Respond(r, 404, [message |-> "User not found"])
     ELSE \E user \in hit : Respond(r, 200, UserInfo(user))
  /\ UNCHANGED <<users, posts, comments, nextId, now, cookie, issued, faults>>

\* ----------------------------------------------------------- routes/posts.js
postCreateValid(b) ==
  /\ b.title # NoText
  /\ b.desc # ""
  /\ b.username # ""
  /\ IsMongoId(b.userId)
postPutValid(id, b) ==
  /\ IsMongoId(id)
  /\ Has(b, "title") => b.title # NoText
  /\ Has(b, "desc") => b.desc # ""

PostCreateBodies ==
  {[title |-> Title1, desc |-> "d1", username |-> "ann", userId |-> uid] : uid \in {1, Fresh}}
    \cup {[title |-> NoText, desc |-> "d1", username |-> "ann", userId |-> 1],
          [title |-> Title1, desc |-> "", username |-> "ann", userId |-> 1],
          [title |-> Title1, desc |-> "d1", username |-> "", userId |-> 1],
          [title |-> Title1, desc |-> "d1", username |-> "ann", userId |-> BadId]}
PostCreateProbes ==
  {[title |-> Title1, desc |-> "d1", username |-> "ann", userId |-> 1],
   [title |-> NoText, desc |-> "d1", username |-> "ann", userId |-> 1]}
PostPutBodies == {NoBody, [title |-> Title2], [title |-> NoText], [desc |-> "d2"]}
PostPutProbes == {<<3, [title |-> Title2]>>, <<BadId, [title |-> NoText]>>}

\* Variant: the route is mounted without verifyToken.
PostsCreate_open(r) ==
  /\ Free(r)
  /\ \E tok \in Presentable, b \in PostCreateBodies :
       /\ Sent(tok, b, PostCreateProbes)
       /\ Public(r, "posts_create", tok, BadId, b, postCreateValid(b), "pcreate_save")
  /\ UNCHANGED <<users, posts, comments, nextId, now, cookie, issued, faults>>
PostsCreate(r) ==
  /\ Free(r)
  /\ \E tok \in Presentable, b \in PostCreateBodies :
       /\ Sent(tok, b, PostCreateProbes)
       /\ Protected(r, "posts_create", tok, BadId, b, postCreateValid(b), "pcreate_save")
  /\ UNCHANGED <<users, posts, comments, nextId, now, cookie, issued, faults>>

PostsCreateSave(r) ==
  /\ req[r].pc = "pcreate_save"
  /\ nextId < Fresh + MaxNew
  /\ nextId' = nextId + 1
  /\ posts' = posts \cup {NewPost(nextId, req[r].body)}
  /\ Respond(r, 200, NewPost(nextId, req[r].body))
  /\ UNCHANGED <<users, comments, now, cookie, issued, faults>>

PostsPut(r) ==
  /\ Free(r)
  /\ \E tok \in Presentable, id \in PostIds, b \in PostPutBodies :
       /\ Sent(tok, <<id, b>>, PostPutProbes)
       /\ Protected(r, "posts_put", tok, id, b, postPutValid(id, b), "pput_update")
  /\ UNCHANGED <<users, posts, comments, nextId, now, cookie, issued, faults>>

\* Model.findByIdAndUpdate(id, { $set: body }, { new: true }): the updated
\* collection and the document returned ({} for null).
FindByIdAndUpdate(coll, id, body) ==
  (coll \ FindById(coll, id)) \cup {SetFields(d, body) : d \in FindById(coll, id)}
Updated(coll, id, body) == {SetFields(d, body) : d \in FindById(coll, id)}
DocOut(hit) == IF hit = {} THEN NoBody ELSE CHOOSE d \in hit : TRUE

\* Variant: the update is an upsert, storing a new post when none matches.
PostsPutUpdate_upsert(r) ==
  /\ req[r].pc = "pput_update"
  /\ LET b == req[r].body
         made == [_id |-> req[r].id,
                  title |-> IF Has(b, "title") THEN b.title ELSE NoText,
                  desc |-> IF Has(b, "desc") THEN b.desc ELSE "",
                  username |-> "", userId |-> NoId]
     IN IF FindById(posts, req[r].id) = {}
        THEN posts' = posts \cup {made} /\ Respond(r, 200, made)
        ELSE /\ posts' = FindByIdAndUpdate(posts, req[r].id, b)
             /\ Respond(r, 200, DocOut(Updated(posts, req[r].id, b)))
  /\ UNCHANGED <<users, comments, nextId, now, cookie, issued, faults>>
PostsPutUpdate(r) ==
  /\ req[r].pc = "pput_update"
  /\ posts' = FindByIdAndUpdate(posts, req[r].id, req[r].body)
  /\ Respond(r, 200, DocOut(Updated(posts, req[r].id, req[r].body)))
  /\ UNCHANGED <<users, comments, nextId, now, cookie, issued, faults>>

PostsDelete(r) ==
  /\ Free(r)
  /\ \E tok \in Presentable, id \in PostIds :
       /\ Sent(tok, id, {3, BadId})
       /\ Protected(r, "posts_delete", tok, id, NoBody, IsMongoId(id), "pdel_post")
  /\ UNCHANGED <<users, posts, comments, nextId, now, cookie, issued, faults>>

\* Model.findByIdAndDelete(id)
FindByIdAndDelete(coll, id) == coll \ FindById(coll, id)

\* Variant: only the post's owner deletes it.
PostsDeletePost_owner(r) ==
  /\ req[r].pc = "pdel_post"
  /\ posts' = {p \in posts : p._id # req[r].id \/ p.userId # req[r].tok._id}
  /\ Goto(r, "pdel_comments")
  /\ UNCHANGED <<users, comments, nextId, now, cookie, issued, faults>>
PostsDeletePost(r) ==
  /\ req[r].pc = "pdel_post"
  /\ posts' = FindByIdAndDelete(posts, req[r].id)
  /\ Goto(r, "pdel_comments")
  /\ UNCHANGED <<users, comments, nextId, now, cookie, issued, faults>>

\* Variant: deleteOne in place of deleteMany.
PostsDeleteComments_one(r) ==
  /\ req[r].pc = "pdel_comments"
  /\ LET hit == {c \in comments : c.postId = req[r].id} IN
     comments' = IF hit = {} THEN comments ELSE comments \ {CHOOSE c \in hit : TRUE}
  /\ Respond(r, 200, [message |-> "Post has been deleted!"])
  /\ UNCHANGED <<users, posts, nextId, now, cookie, issued, faults>>
PostsDeleteComments(r) ==
  /\ req[r].pc = "pdel_comments"
  /\ comments' = DeleteMany(comments, "postId", req[r].id)
  /\ Respond(r, 200, [message |-> "Post has been deleted!"])
  /\ UNCHANGED <<users, posts, nextId, now, cookie, issued, faults>>

PostsGet(r) ==
  /\ Free(r)
  /\ \E tok \in {cookie}, id \in PostIds :
       Public(r, "posts_get", tok, id, NoBody, IsMongoId(id), "pget_find")
  /\ UNCHANGED <<users, posts, comments, nextId, now, cookie, issued, faults>>

PostsGetFind(r) ==
  /\ req[r].pc = "pget_find"
  /\ Respond(r, 200, DocOut(FindById(posts, req[r].id)))
  /\ UNCHANGED <<users, posts, comments, nextId, now, cookie, issued, faults>>

\* { title: { $regex: search, $options: "i" } }: the title contains the term,
\* letter case ignored.
Lower(c) == IF c = "T" THEN "t" ELSE c
RegexI(title, term) ==
  \E i \in 0..(Len(title) - Len(term)) :
    \A j \in 1..Len(term) : Lower(title[i + j]) = Lower(term[j])
Searches == {NoText, <<"T">>, Title2}

PostsList(r) ==
  /\ Free(r)
  /\ \E tok \in {cookie}, search \in Searches :
       Public(r, "posts_list", tok, BadId, [search |-> search], TRUE, "plist_find")
  /\ UNCHANGED <<users, posts, comments, nextId, now, cookie, issued, faults>>

PostsListFind(r) ==
  /\ req[r].pc = "plist_find"
  /\ Respond(r, 200,
       [list |-> IF req[r].body.search # NoText
                 THEN {p \in posts : RegexI(p.title, req[r].body.search)}
                 ELSE posts])
  /\ UNCHANGED <<users, posts, comments, nextId, now, cookie, issued, faults>>

PostsByUser(r) ==
  /\ Free(r)
  /\ \E tok \in {cookie}, id \in UserIds :
       Public(r, "posts_user", tok, id, NoBody, IsMongoId(id), "puser_find")
  /\ UNCHANGED <<users, posts, comments, nextId, now, cookie, issued, faults>>

PostsByUserFind(r) ==
  /\ req[r].pc = "puser_find"
  /\ Respond(r, 200, [list |-> {p \in posts : p.userId = req[r].id}])
  /\ UNCHANGED <<users, posts, comments, nextId, now, cookie, issued, faults>>

\* -------------------------------------------------------- routes/comments.js
commentCreateValid(b) ==
  /\ b.comment # ""
  /\ b.author # ""
  /\ b.postId # NoId
  /\ b.userId # NoId
commentPutValid(b) == Has(b, "comment") => b.comment # ""

CommentCreateBodies ==
  {[comment |-> "c1", author |-> "ann", postId |-> pid, userId |-> uid] :
     pid \in {3, Fresh}, uid \in {1, 2}}
    \cup {[comment |-> "", author |-> "ann", postId |-> 1, userId |-> 1],
          [comment |-> "c1", author |-> "", postId |-> 1, userId |-> 1],
          [comment |-> "c1", author |-> "ann", postId |-> NoId, userId |-> 1],
          [comment |-> "c1", author |-> "ann", postId |-> 1, userId |-> NoId]}
CommentCreateProbes ==
  {[comment |-> "c1", author |-> "ann", postId |-> 1, userId |-> 1],
   [comment |-> "", author |-> "ann", postId |-> 1, userId |-> 1]}
CommentPutBodies == {NoBody, [comment |-> "c2"], [comment |-> ""]}
CommentPutProbes == {<<5, [comment |-> "c2"]>>, <<5, [comment |-> ""]>>}

CommentsCreate(r) ==
  /\ Free(r)
  /\ \E tok \in Presentable, b \in CommentCreateBodies :
       /\ Sent(tok, b, CommentCreateProbes)
       /\ Protected(r, "comments_create", tok, BadId, b, commentCreateValid(b), "ccreate_save")
  /\ UNCHANGED <<users, posts, comments, nextId, now, cookie, issued, faults>>

\* Variant: the comment is saved only when its post is stored.
CommentsCreateSave_checked(r) ==
  /\ req[r].pc = "ccreate_save"
  /\ IF FindById(posts, req[r].body.postId) = {}
     THEN /\ Respond(r, 404, [message |-> "Post not found"])
          /\ UNCHANGED <<comments, nextId>>
     ELSE /\ nextId < Fresh + MaxNew
          /\ nextId' = nextId + 1
          /\ comments' = comments \cup {NewComment(nextId, req[r].body)}
          /\ Respond(r, 200, NewComment(nextId, req[r].body))
  /\ UNCHANGED <<users, posts, now, cookie, issued, faults>>
CommentsCreateSave(r) ==
  /\ req[r].pc = "ccreate_save"
  /\ nextId < Fresh + MaxNew
  /\ nextId' = nextId + 1
  /\ comments' = comments \cup {NewComment(nextId, req[r].body)}
  /\ Respond(r, 200, NewComment(nextId, req[r].body))
  /\ UNCHANGED <<users, posts, now, cookie, issued, faults>>

CommentsPut(r) ==
  /\ Free(r)
  /\ \E tok \in Presentable, id \in CommentIds, b \in CommentPutBodies :
       /\ Sent(tok, <<id, b>>, CommentPutProbes)
       /\ Protected(r, "comments_put", tok, id, b, commentPutValid(b), "cput_update")
  /\ UNCHANGED <<users, posts, comments, nextId, now, cookie, issued, faults>>

\* The comment routes do not validate :id; casting a string that is no
\* ObjectId makes the query reject, which the handler answers with 500.
CommentsPutUpdate(r) ==
  /\ req[r].pc = "cput_update"
  /\ IF ~IsMongoId(req[r].id)
     THEN /\ Respond(r, 500, [error |-> "CastError"])
          /\ comments' = comments
     ELSE /\ comments' = FindByIdAndUpdate(comments, req[r].id, req[r].body)
          /\ Respond(r, 200, DocOut(Updated(comments, req[r].id, req[r].body)))
  /\ UNCHANGED <<users, posts, nextId, now, cookie, issued, faults>>

CommentsDelete(r) ==
  /\ Free(r)
  /\ \E tok \in Presentable, id \in CommentIds :
       /\ Sent(tok, id, {5, BadId})
       /\ Protected(r, "comments_delete", tok, id, NoBody, TRUE, "cdel_comment")
  /\ UNCHANGED <<users, posts, comments, nextId, now, cookie, issued, faults>>

CommentsDeleteComment(r) ==
  /\ req[r].pc = "cdel_comment"
  /\ IF ~IsMongoId(req[r].id)
     THEN /\ Respond(r, 500, [error |-> "CastError"])
          /\ comments' = comments
     ELSE /\ comments' = FindByIdAndDelete(comments, req[r].id)
          /\ Respond(r, 200, [message |-> "Comment has been deleted!"])
  /\ UNCHANGED <<users, posts, nextId, now, cookie, issued, faults>>

CommentsByPost(r) ==
  /\ Free(r)
  /\ \E tok \in {cookie}, id \in PostIds :
       Public(r, "comments_post", tok, id, NoBody, TRUE, "cpost_find")
  /\ UNCHANGED <<users, posts, comments, nextId, now, cookie, issued, faults>>

CommentsByPostFind(r) ==
  /\ req[r].pc = "cpost_find"
  /\ Respond(r, 200, [list |-> {c \in comments : c.postId = req[r].id}])
  /\ UNCHANGED <<users, posts, comments, nextId, now, cookie, issued, faults>>

\* ------------------------------------------------------------- the system
AuthStep(r) ==
  \/ Register(r) \/ RegisterFindOne(r) \/ RegisterHash(r) \/ RegisterSave(r)
  \/ Login(r) \/ LoginFindOne(r) \/ LoginCompare(r)
  \/ Logout(r) \/ Refetch(r)
UsersStep(r) ==
  \/ UsersPut(r) \/ UsersPutHash(r) \/ UsersPutUpdate(r)
  \/ UsersDelete(r) \/ UsersDeleteFind(r) \/ UsersDeleteUser(r)
  \/ UsersDeletePosts(r) \/ UsersDeleteComments(r)
  \/ UsersGet(r) \/ UsersGetFind(r)
PostsStep(r) ==
  \/ PostsCreate(r) \/ PostsCreateSave(r)
  \/ PostsPut(r) \/ PostsPutUpdate(r)
  \/ PostsDelete(r) \/ PostsDeletePost(r) \/ PostsDeleteComments(r)
  \/ PostsGet(r) \/ PostsGetFind(r)
  \/ PostsList(r) \/ PostsListFind(r)
  \/ PostsByUser(r) \/ PostsByUserFind(r)
CommentsStep(r) ==
  \/ CommentsCreate(r) \/ CommentsCreateSave(r)
  \/ CommentsPut(r) \/ CommentsPutUpdate(r)
  \/ CommentsDelete(r) \/ CommentsDeleteComment(r)
  \/ CommentsByPost(r) \/ CommentsByPostFind(r)

\* One request at a time on an empty database, every route, the clock
\* running.
Next ==
  \/ Tick
  \/ Close(1)
  \/ AuthStep(1) \/ UsersStep(1) \/ PostsStep(1) \/ CommentsStep(1)

Spec == Init /\ [][Next]_vars

\* One request at a time: the auth routes and GET /api/users/:id, the clock
\* running.
NextAuth ==
  \/ Tick
  \/ Close(1)
  \/ AuthStep(1)
  \/ UsersGet(1) \/ UsersGetFind(1)

SpecAuth == Init /\ [][NextAuth]_vars

\* One request at a time: a session (login, logout, refetch) and the writes
\* to the User it names, the clock running.
NextSession ==
  \/ Tick
  \/ Close(1)
  \/ Login(1) \/ LoginFindOne(1) \/ LoginCompare(1)
  \/ Logout(1) \/ Refetch(1)
  \/ UsersPut(1) \/ UsersPutHash(1) \/ UsersPutUpdate(1)
  \/ UsersDelete(1) \/ UsersDeleteFind(1) \/ UsersDeleteUser(1)
  \/ UsersDeletePosts(1) \/ UsersDeleteComments(1)

SpecSession == Init /\ [][NextSession]_vars

\* One request at a time on the blog: login and the three DELETE routes.
NextBlog ==
  \/ Close(1)
  \/ Login(1) \/ LoginFindOne(1) \/ LoginCompare(1)
  \/ UsersDelete(1) \/ UsersDeleteFind(1) \/ UsersDeleteUser(1)
  \/ UsersDeletePosts(1) \/ UsersDeleteComments(1)
  \/ PostsDelete(1) \/ PostsDeletePost(1) \/ PostsDeleteComments(1)
  \/ CommentsDelete(1) \/ CommentsDeleteComment(1)

SpecBlog == InitBlog /\ [][NextBlog]_vars

\* One request at a time on the blog, Ann or Bob logged in: the update and
\* delete routes of the three collections.
NextOwner ==
  \/ Close(1)
  \/ UsersPut(1) \/ UsersPutHash(1) \/ UsersPutUpdate(1)
  \/ UsersDelete(1) \/ UsersDeleteFind(1) \/ UsersDeleteUser(1)
  \/ UsersDeletePosts(1) \/ UsersDeleteComments(1)
  \/ PostsPut(1) \/ PostsPutUpdate(1)
  \/ PostsDelete(1) \/ PostsDeletePost(1) \/ PostsDeleteComments(1)
  \/ CommentsPut(1) \/ CommentsPutUpdate(1)
  \/ CommentsDelete(1) \/ CommentsDeleteComment(1)

SpecOwner == (InitBlog \/ InitBlogBob) /\ [][NextOwner]_vars

\* One request at a time on the blog, where an awaited call may reject:
\* registration, comment creation, refetch and the two cascading deletes.
\* Arrive starts a request (a creating one only while an id is left to give),
\* Settle resumes the request in flight at its awaited call.
Arrive(r) ==
  \/ nextId < Fresh + MaxNew /\ Register(r)
  \/ nextId < Fresh + MaxNew /\ CommentsCreate(r)
  \/ Refetch(r)
  \/ UsersDelete(r)
  \/ PostsDelete(r)
Settle(r) ==
  \/ Throw(r)
  \/ RegisterFindOne(r) \/ RegisterHash(r) \/ RegisterSave(r)
  \/ CommentsCreateSave(r)
  \/ UsersDeleteFind(r) \/ UsersDeleteUser(r)
  \/ UsersDeletePosts(r) \/ UsersDeleteComments(r)
  \/ PostsDeletePost(r) \/ PostsDeleteComments(r)
NextFaults == Close(1) \/ Arrive(1) \/ Settle(1)

SpecFaults == InitBlog /\ [][NextFaults]_vars
\* Every awaited promise settles: the event loop resumes the handler.
SpecFaultsFair == SpecFaults /\ WF_vars(Settle(1))

\* A user delete in the first slot with public reads in the other two,
\* interleaving at every await.
NextRace ==
  \/ UsersDelete(1) \/ UsersDeleteFind(1) \/ UsersDeleteUser(1)
  \/ UsersDeletePosts(1) \/ UsersDeleteComments(1)
  \/ UsersGet(2) \/ UsersGetFind(2)
  \/ PostsByUser(3) \/ PostsByUserFind(3)

SpecRace == InitBlog /\ [][NextRace]_vars

\* A post delete in the first slot and a comment creation in the second,
\* interleaving at every await.
NextCommentRace ==
  \/ PostsDelete(1) \/ PostsDeletePost(1) \/ PostsDeleteComments(1)
  \/ CommentsCreate(2) \/ CommentsCreateSave(2)

SpecCommentRace == InitBlog /\ [][NextCommentRace]_vars

\* Two requests interleaving on the blog, one per slot: the routes that
\* write Users.
UsersWrite(r) ==
  \/ Register(r) \/ RegisterFindOne(r) \/ RegisterHash(r) \/ RegisterSave(r)
  \/ UsersPut(r) \/ UsersPutHash(r) \/ UsersPutUpdate(r)
  \/ UsersDelete(r) \/ UsersDeleteFind(r) \/ UsersDeleteUser(r)
  \/ UsersDeletePosts(r) \/ UsersDeleteComments(r)
NextUsers == UsersWrite(1) \/ UsersWrite(2)

SpecUsers == InitBlog /\ [][NextUsers]_vars

\* -------------------------------------------------------------- properties
ProtectedKinds ==
  {"users_put", "users_delete", "posts_create", "posts_put", "posts_delete",
   "comments_create", "comments_put", "comments_delete"}
ReadKinds == {"users_get", "posts_get", "posts_list", "posts_user", "comments_post"}
Done(r, kind) == req[r].kind = kind /\ req[r].pc = "done"
\* The stores as the request in slot r found them.
PreUsers(r) == req[r].pre[1]
PrePosts(r) == req[r].pre[2]
PreComments(r) == req[r].pre[3]

\* C1: a register request whose username or email equals that of a stored
\* User is answered 400 and leaves the User store as it was, holding at most
\* one record with that username and at most one with that email.
C1_DuplicateRegisterRejected ==
  \A r \in Slots :
    (/\ Done(r, "register") /\ req[r].solo
     /\ \E u \in PreUsers(r) :
          u.username = req[r].body.username \/ u.email = req[r].body.email)
    => /\ req[r].status = 400
       /\ users = PreUsers(r)
       /\ Cardinality({u \in users : u.username = req[r].body.username}) <= 1
       /\ Cardinality({u \in users : u.email = req[r].body.email}) <= 1

\* A user registered, and a second registration with that username alone was
\* answered 400.
C1_Witness ==
  \E r \in Slots :
    /\ Done(r, "register") /\ req[r].status = 400 /\ registerValid(req[r].body)
    /\ \E u \in users :
         /\ u._id >= Fresh
         /\ u.username = req[r].body.username /\ u.email # req[r].body.email
    /\ users = PreUsers(r)

\* C2: in every reachable state, under interleaved registrations, user
\* updates and user deletions, no two distinct User records share a username
\* or an email.
C2_UsersUnique ==
  \A u1, u2 \in users :
    u1 # u2 => /\ u1._id # u2._id
               /\ u1.username # u2.username
               /\ u1.email # u2.email

\* Two interleaved writes went for the same name: the later one was refused by
\* the unique index.
C2_Witness ==
  \E r \in Slots :
    /\ req[r].pc = "done" /\ req[r].status = 500 /\ ~req[r].solo
    /\ req[r].kind \in {"register", "users_put"}
    /\ req[r].out = [error |-> "E11000"]
    /\ \E q \in Slots \ {r} : req[q].pc = "done" /\ req[q].status \in {200, 201}

\* C3: a login with the email and password of a stored User is answered 200
\* with a token that verifies for as long as it is unexpired and carries that
\* user's _id, username and email as stored; the refetch route answers a
\* verifying token with exactly the claims it carries.
C3_TokenCarriesIdentity ==
  \A r \in Slots :
    /\ (Done(r, "login") /\ req[r].solo) =>
         \A u \in PreUsers(r) :
           (u.email = req[r].body.email /\ bcryptCompare(req[r].body.password, u.password))
           => /\ req[r].status = 200
              /\ Claims(req[r].setCookie)
                   = [_id |-> u._id, username |-> u.username, email |-> u.email]
              /\ req[r].setCookie.exp \in (req[r].at + ExpiresInDays)..(now + ExpiresInDays)
              /\ \A t \in 0..(req[r].setCookie.exp - 1) :
                   jwtVerify(req[r].setCookie, Secret, t) = "ok"
    /\ (Done(r, "refetch") /\ jwtVerify(req[r].tok, Secret, req[r].at) = "ok") =>
         /\ req[r].status = 200
         /\ req[r].tok = issued
         /\ \A f \in {"_id", "username", "email"} : req[r].out[f] = req[r].tok[f]

\* The token of a login was presented to refetch and answered with the claims
\* of the stored user.
C3_Witness ==
  \E r \in Slots :
    /\ Done(r, "refetch") /\ req[r].status = 200
    /\ \E u \in users : Claims(req[r].out) = Claims(u)

\* C4: a login sets the token cookie only when a User with the email exists
\* and the password matches its hash; an unknown email is answered 404 and a
\* wrong password 401, both without a cookie.
C4_NoTokenWithoutMatch ==
  \A r \in Slots :
    (Done(r, "login") /\ req[r].solo) =>
      LET hit == {u \in PreUsers(r) : u.email = req[r].body.email}
          match == {u \in hit : bcryptCompare(req[r].body.password, u.password)}
      IN /\ req[r].setCookie # NoToken => (req[r].status = 200 /\ match # {})
         /\ req[r].status # 200 => req[r].setCookie = NoToken
         /\ (loginValid(req[r].body) /\ hit = {}) => req[r].status = 404
         /\ (loginValid(req[r].body) /\ hit # {} /\ match = {}) => req[r].status = 401

\* A login for a stored user with the wrong password: 401, no cookie.
C4_Witness ==
  \E r \in Slots :
    /\ Done(r, "login") /\ req[r].status = 401 /\ req[r].setCookie = NoToken
    /\ \E u \in users : u.email = req[r].body.email

\* C5: a request to a protected route whose token is missing, does not
\* verify or has expired is rejected by the gate at once, before validation
\* and the handler, and the stores are as the request found them.
C5_BadTokenRejected ==
  \A r \in Slots :
    (/\ req[r].kind \in ProtectedKinds /\ req[r].pc # "idle"
     /\ jwtVerify(req[r].tok, Secret, req[r].at) # "ok")
    => /\ req[r].pc = "done"
       /\ req[r].status = GateStatus
       /\ stores = req[r].pre

\* A token that was issued by a login and has since expired was rejected.
C5_Witness ==
  \E r \in Slots :
    /\ req[r].kind \in ProtectedKinds /\ req[r].pc = "done" /\ req[r].status = GateStatus
    /\ jwtVerify(req[r].tok, Secret, req[r].at) = "expired"
    /\ users # {}

Stepped(r) == req'[r] # req[r] /\ req[r].pc # "idle"
GatedWrite(r) ==
  req[r].kind \in ProtectedKinds /\ jwtVerify(req[r].tok, Secret, req[r].at) = "ok"
\* C6 as stated: every step that changes a store is taken by a request to a
\* protected route that passed token verification.
C6_EveryWriteGated ==
  [][\A r \in Slots : (Stepped(r) /\ stores' # stores) => GatedWrite(r)]_vars

ReadsPublic ==
  \A r \in Slots :
    (req[r].kind \in ReadKinds /\ req[r].pc # "idle") =>
      /\ req[r].status # GateStatus
      /\ stores = req[r].pre
\* C6, amended: every step that changes a store is taken by a request that
\* passed token verification on a protected route, or by a registration
\* adding one User; the read routes are never rejected by the gate and never
\* write.
C6_WritesGatedOrRegister ==
  /\ []ReadsPublic
  /\ [][\A r \in Slots :
          (Stepped(r) /\ stores' # stores) =>
            \/ GatedWrite(r)
            \/ /\ req[r].kind = "register"
               /\ \E u \in users' : users' = users \cup {u} /\ u \notin users
               /\ posts' = posts /\ comments' = comments]_vars

\* A request that passed the gate has changed a store.
C6_Witness ==
  \E r \in Slots :
    /\ GatedWrite(r) /\ req[r].pc = "done" /\ req[r].status = 200
    /\ stores # req[r].pre
    /\ req[r].kind = "posts_put"

\* C7: DELETE /api/users/:id for a stored user, run alone, is answered 200
\* and leaves exactly: the users but that one, the posts of other users, the
\* comments of other users (those on the deleted user's posts included).
C7_UserDeletePartialCascade ==
  \A r \in Slots :
    (/\ Done(r, "users_delete") /\ req[r].solo
     /\ jwtVerify(req[r].tok, Secret, req[r].at) = "ok"
     /\ \E u \in PreUsers(r) : u._id = req[r].id)
    => /\ req[r].status = 200
       /\ users = {u \in PreUsers(r) : u._id # req[r].id}
       /\ posts = {p \in PrePosts(r) : p.userId # req[r].id}
       /\ comments = {c \in PreComments(r) : c.userId # req[r].id}

\* A user with posts and comments was deleted; another user's comment on one
\* of the deleted posts is still stored.
C7_Witness ==
  \E r \in Slots :
    /\ Done(r, "users_delete") /\ req[r].status = 200
    /\ \E p \in PrePosts(r) : p.userId = req[r].id /\ p \notin posts
    /\ \E c \in PreComments(r) : c.userId = req[r].id /\ c \notin comments
    /\ \E c \in comments : \E p \in PrePosts(r) : c.postId = p._id /\ p.userId = req[r].id

\* C8: DELETE /api/posts/:id, run alone, is answered 200 and leaves exactly:
\* the posts but that one, the comments on other posts, and the users.
C8_PostDeleteCascade ==
  \A r \in Slots :
    (/\ Done(r, "posts_delete") /\ req[r].solo
     /\ jwtVerify(req[r].tok, Secret, req[r].at) = "ok"
     /\ IsMongoId(req[r].id))
    => /\ req[r].status = 200
       /\ posts = {p \in PrePosts(r) : p._id # req[r].id}
       /\ comments = {c \in PreComments(r) : c.postId # req[r].id}
       /\ users = PreUsers(r)

\* A post with two comments was deleted, and a comment on another post stays.
C8_Witness ==
  \E r \in Slots :
    /\ Done(r, "posts_delete") /\ req[r].status = 200
    /\ Cardinality({c \in PreComments(r) : c.postId = req[r].id}) = 2
    /\ \E p \in PrePosts(r) : p._id = req[r].id
    /\ comments # {}

C10_SecondDeleteIdempotent ==
  \A r \in Slots :
    (/\ req[r].again /\ req[r].solo /\ req[r].pc # "idle"
     /\ jwtVerify(req[r].tok, Secret, req[r].at) = "ok") =>
      /\ stores = req[r].pre
      /\ req[r].status # 500
      /\ req[r].pc = "done" =>
           req[r].status = IF req[r].kind = "users_delete" THEN 404 ELSE 200

\* The second DELETE of a user has been answered.
C10_Witness ==
  \E r \in Slots :
    /\ req[r].again /\ Done(r, "users_delete") /\ req[r].status = 404
    /\ Cardinality(users) = 1

\* A value bcrypt.hash can have returned: a salt and a plaintext are in it.
IsHash(h) == \E salt \in Salts, pw \in 1..(PwSpan - 1) : h = 0 - (salt * PwSpan + pw)
\* C11: in every reachable state the password of every stored User is a
\* salted hash, never a plaintext: after registrations and after updates of a
\* user with or without a password in the body.
C11_PasswordsHashed ==
  \A u \in users : IsHash(u.password) /\ u.password < 0

\* A PUT with a new password was answered 200 and the user holds a hash of it
\* that differs from the hash stored before.
C11_Witness ==
  \E r \in Slots :
    /\ Done(r, "users_put") /\ req[r].status = 200 /\ Has(req[r].body, "password")
    /\ \E u \in users :
         /\ u._id = req[r].id /\ IsHash(u.password)
         /\ \A v \in PreUsers(r) : v._id = u._id => v.password # u.password

\* What jwt.verify accepts, from the token, the secret and the clock alone.
ValidAt(tok, t) ==
  /\ tok # NoToken
  /\ tok.mac = <<Secret, tok._id, tok.username, tok.email, tok.exp>>
  /\ t < tok.exp
\* C12: whether refetch and the gate accept a token is decided by the token,
\* the secret and the clock alone, in every reachable state: after a logout
\* and after the User the token names was deleted or renamed, the token is
\* accepted until it expires.
C12_VerificationPure ==
  \A r \in Slots :
    /\ (req[r].kind = "refetch" /\ req[r].pc # "idle") =>
         (req[r].status = 200 <=> ValidAt(req[r].tok, req[r].at))
    /\ (req[r].kind \in ProtectedKinds /\ req[r].pc # "idle") =>
         (req[r].status = GateStatus <=> ~ValidAt(req[r].tok, req[r].at))

\* After a logout, and after the User it names was deleted, the token of the
\* login is answered 200 by refetch.
C12_Witness ==
  \E r \in Slots :
    /\ Done(r, "refetch") /\ req[r].status = 200
    /\ cookie = NoToken
    /\ \A u \in users : u._id # req[r].tok._id

\* C13: GET /api/auth/refetch answers 200 with the claims of the cookie's
\* token when the token is validly signed and unexpired, and 404 when it is
\* missing, forged, tampered or expired; either way it writes one response
\* and leaves the stores as it found them.
C13_Refetch ==
  \A r \in Slots :
    (req[r].kind = "refetch" /\ req[r].pc # "idle") =>
      /\ req[r].pc = "done" /\ req[r].sent = 1
      /\ stores = req[r].pre
      /\ IF ValidAt(req[r].tok, req[r].at)
         THEN /\ req[r].status = 200
              /\ req[r].out = [_id |-> req[r].tok._id, username |-> req[r].tok.username,
                               email |-> req[r].tok.email, exp |-> req[r].tok.exp]
         ELSE req[r].status = 404

\* A token of a login, altered afterwards, was answered 404.
C13_Witness ==
  \E r \in Slots :
    /\ Done(r, "refetch") /\ req[r].status = 404
    /\ issued # NoToken /\ req[r].tok = Tamper(issued)
    /\ users # {}

OwnerKinds ==
  {"users_put", "users_delete", "posts_put", "posts_delete", "comments_put", "comments_delete"}
\* The stores and the status an update or delete ends with, from its route,
\* :id and body and the stores it found; the token is not an argument.
Outcome(kind, id, b, pre) ==
  CASE kind = "posts_put" ->
         [stores |-> <<pre[1], FindByIdAndUpdate(pre[2], id, b), pre[3]>>, status |-> 200]
    [] kind = "posts_delete" ->
         [stores |-> <<pre[1], FindByIdAndDelete(pre[2], id), DeleteMany(pre[3], "postId", id)>>,
          status |-> 200]
    [] kind = "comments_put" ->
         IF IsMongoId(id)
         THEN [stores |-> <<pre[1], pre[2], FindByIdAndUpdate(pre[3], id, b)>>, status |-> 200]
         ELSE [stores |-> pre, status |-> 500]
    [] kind = "comments_delete" ->
         IF IsMongoId(id)
         THEN [stores |-> <<pre[1], pre[2], FindByIdAndDelete(pre[3], id)>>, status |-> 200]
         ELSE [stores |-> pre, status |-> 500]
    [] kind = "users_put" ->
         IF \E u \in FindById(pre[1], id) : UniqueViolation(pre[1], SetFields(u, b))
         THEN [stores |-> pre, status |-> 500]
         ELSE [stores |-> <<FindByIdAndUpdate(pre[1], id, b), pre[2], pre[3]>>, status |-> 200]
    [] kind = "users_delete" ->
         IF FindById(pre[1], id) = {}
         THEN [stores |-> pre, status |-> 404]
         ELSE [stores |-> <<FindByIdAndDelete(pre[1], id), DeleteMany(pre[2], "userId", id),
                            DeleteMany(pre[3], "userId", id)>>,
               status |-> 200]
\* C14: an update or delete of a Post, Comment or User that passed the gate
\* and validation ends with stores and a status that are a function of the
\* route, the :id, the body and the stores it found, whichever identity its
\* token carries: a user updates and deletes what another user owns.
C14_NoOwnershipCheck ==
  \A r \in Slots :
    (/\ req[r].kind \in OwnerKinds /\ req[r].pc = "done" /\ req[r].solo
     /\ ValidAt(req[r].tok, req[r].at) /\ req[r].status # 400)
    => /\ stores = Outcome(req[r].kind, req[r].id, req[r].body, req[r].pre).stores
       /\ req[r].status = Outcome(req[r].kind, req[r].id, req[r].body, req[r].pre).status

\* A post was deleted by a request whose token names another user than the
\* post's owner.
C14_Witness ==
  \E r \in Slots :
    /\ Done(r, "posts_delete") /\ req[r].status = 200
    /\ \E p \in PrePosts(r) :
         p._id = req[r].id /\ p.userId # req[r].tok._id /\ p \notin posts

\* C15: every step by which POST /api/posts/create stores a Post stores one
\* whose userId is the _id of a User in the Users store at that moment.
C15_PostOwnerExists ==
  [][\A r \in Slots :
       (req[r].kind = "posts_create" /\ Stepped(r) /\ posts' # posts) =>
         \A p \in posts' \ posts : \E u \in users : u._id = p.userId]_vars

\* C16: when an awaited call of a cascading delete rejects, the request is
\* answered 500 and the stores keep what the earlier steps did: the parent
\* stays deleted, the dependents not yet removed stay stored.
C16_NoRollback ==
  \A r \in Slots :
    (req[r].pc = "done" /\ req[r].solo /\ req[r].failed # "none"
     /\ req[r].kind \in {"users_delete", "posts_delete"})
    => /\ req[r].status = 500
       /\ req[r].failed \in {"udel_find", "udel_user", "pdel_post"} => stores = req[r].pre
       /\ req[r].failed = "udel_posts" =>
            /\ users = {u \in PreUsers(r) : u._id # req[r].id}
            /\ posts = PrePosts(r) /\ comments = PreComments(r)
       /\ req[r].failed = "udel_comments" =>
            /\ users = {u \in PreUsers(r) : u._id # req[r].id}
            /\ posts = {p \in PrePosts(r) : p.userId # req[r].id}
            /\ comments = PreComments(r)
       /\ req[r].failed = "pdel_comments" =>
            /\ posts = {p \in PrePosts(r) : p._id # req[r].id}
            /\ comments = PreComments(r) /\ users = PreUsers(r)

\* Post.deleteMany rejected in a user delete: answered 500, the user is gone,
\* the user's posts and comments are stored.
C16_Witness ==
  \E r \in Slots :
    /\ Done(r, "users_delete") /\ req[r].status = 500 /\ req[r].failed = "udel_posts"
    /\ \E u \in PreUsers(r) : u._id = req[r].id /\ u \notin users
    /\ \E p \in posts : p.userId = req[r].id
    /\ \E c \in comments : c.userId = req[r].id

\* The user delete in slot d is suspended between User.findByIdAndDelete and
\* Post.deleteMany, and the reads in slots g and p, of the same id, ran there.
MidCascade(d, g, p) ==
  /\ req[d].kind = "users_delete" /\ req[d].pc = "udel_posts"
  /\ Done(g, "users_get") /\ req[g].id = req[d].id /\ req[g].pre = stores
  /\ Done(p, "posts_user") /\ req[p].id = req[d].id /\ req[p].pre = stores
\* C17: reads that run between the first and the second step of a user
\* delete see the cascade half done: GET /api/users/:id answers 404 and
\* GET /api/posts/user/:userId answers with all the posts the user had.
C17_CascadeNotAtomic ==
  \A d, g, p \in Slots :
    MidCascade(d, g, p) =>
      /\ req[g].status = 404
      /\ req[p].status = 200
      /\ req[p].out.list = {q \in PrePosts(d) : q.userId = req[d].id}

\* Such reads ran, and the posts returned are not none.
C17_Witness ==
  \E d, g, p \in Slots :
    /\ MidCascade(d, g, p)
    /\ req[g].status = 404
    /\ req[p].status = 200 /\ req[p].out.list # {}
    /\ \A q \in req[p].out.list : q.userId = req[d].id /\ q \in posts

\* A request has at most one response, has exactly one once it is done, and
\* a rejected call ended it with 500 (a rejected token ends refetch with 404).
OneResponse ==
  \A r \in Slots :
    /\ req[r].sent <= 1
    /\ req[r].pc = "done" <=> req[r].sent = 1
    /\ req[r].failed # "none" => (req[r].pc = "done" /\ req[r].status = 500)
    /\ (Done(r, "refetch") /\ ~ValidAt(req[r].tok, req[r].at)) => req[r].status = 404
\* C18: every request that reached its handler is eventually answered, and
\* answered once, also when an awaited call rejects: the rejection is
\* answered with 500 and the call is not tried again.
C18_EventuallyOneResponse ==
  /\ []OneResponse
  /\ \A r \in Slots : InFlight(r) ~> (req[r].pc = "done" /\ req[r].sent = 1)

\* newUser.save() rejected in a registration: one response, 500, no User added.
C18_Witness ==
  \E r \in Slots :
    /\ Done(r, "register") /\ req[r].failed = "reg_save"
    /\ req[r].status = 500 /\ req[r].sent = 1
    /\ users = PreUsers(r)

\* C19: DELETE /api/users/:id for an id without a User record, run alone,
\* changes no store and, unless its lookup rejects, is answered 404, also when
\* Posts and Comments with that userId are stored: repeating a user delete
\* that failed after the User was removed leaves the remaining Posts and
\* Comments where they are.
C19_MissingUserNoCascade ==
  \A r \in Slots :
    (/\ Done(r, "users_delete") /\ req[r].solo
     /\ ValidAt(req[r].tok, req[r].at) /\ IsMongoId(req[r].id)
     /\ \A u \in PreUsers(r) : u._id # req[r].id)
    => /\ stores = req[r].pre
       /\ req[r].failed = "none" => req[r].status = 404

\* After a user delete that failed once the User was removed, the delete was
\* repeated: 404, and the user's posts and comments are still stored.
C19_Witness ==
  \E r \in Slots :
    /\ Done(r, "users_delete") /\ req[r].status = 404
    /\ \E p \in posts : p.userId = req[r].id
    /\ \E c \in comments : c.userId = req[r].id
    /\ faults < MaxFaults

\* The post delete in slot d and the comment creation in slot c, for the same
\* post, have both been answered 200.
BothAnswered(d, c) ==
  /\ Done(d, "posts_delete") /\ req[d].status = 200
  /\ Done(c, "comments_create") /\ req[c].status = 200
  /\ req[c].body.postId = req[d].id
\* The comments both requests found, less those on the deleted post.
OtherComments(d, c) ==
  {x \in PreComments(d) \cap PreComments(c) : x.postId # req[d].id}
\* The request in slot r takes the step that follows its await at pc.
Resumed(r, pc) == req[r].pc = pc /\ req'[r].pc # pc
\* C20: a comment creation interleaved with the delete of its post ends in
\* one of two stores, by the order of the writes: newComment.save() stores
\* the comment whether or not its post or its user is stored,
\* Comment.deleteMany removes the comments on the post stored at that moment,
\* and a comment saved later stays after the delete was answered 200.
C20_CommentCreateRacesPostDelete ==
  /\ [](\A d, c \in Slots :
          BothAnswered(d, c) =>
            \/ comments = OtherComments(d, c)
            \/ comments = OtherComments(d, c) \cup {req[c].out})
  /\ [][\A r \in Slots :
          /\ Resumed(r, "ccreate_save") =>
               /\ req'[r].pc = "done" /\ req'[r].status = 200
               /\ req'[r].out.postId = req[r].body.postId
               /\ req'[r].out \notin comments
               /\ comments' = comments \cup {req'[r].out}
          /\ Resumed(r, "pdel_comments") =>
               /\ req'[r].pc = "done" /\ req'[r].status = 200
               /\ comments' = {x \in comments : x.postId # req[r].id}]_vars

\* The delete of a stored post was answered 200 and a comment on that post,
\* saved after Comment.deleteMany, is stored.
C20_Witness ==
  \E d, c \in Slots :
    /\ BothAnswered(d, c)
    /\ \E p \in PrePosts(d) : p._id = req[d].id
    /\ \A p \in posts : p._id # req[d].id
    /\ req[c].out \in comments /\ req[c].out.postId = req[d].id

\* The body as it arrived: the handler of PUT /api/users/:id overwrites the
\* password of req.body with its hash, which carries the plaintext.
Received(b) ==
  IF Has(b, "password") /\ b.password < 0
  THEN [b EXCEPT !.password = (0 - b.password) % PwSpan]
  ELSE b
\* The input of a request to a protected route is invalid: its body breaks a
\* rule of the route, or the :id of the route is no object id.
InvalidInput(kind, id, b) ==
  CASE kind = "users_put" -> ~userPutValid(id, Received(b))
    [] kind = "posts_create" -> ~postCreateValid(b)
    [] kind = "posts_put" -> ~postPutValid(id, b)
    [] kind = "comments_create" -> ~commentCreateValid(b)
    [] kind = "comments_put" -> ~IsMongoId(id) \/ ~commentPutValid(b)
    [] kind \in DeleteKinds -> ~IsMongoId(id)

\* The input is rejected by the validation rules of the route.  The comment
\* routes have no rule for :id, and DELETE /api/comments/:id has no rule.
Rejected(kind, id, b) ==
  CASE kind = "comments_put" -> ~commentPutValid(b)
    [] kind = "comments_delete" -> FALSE
    [] OTHER -> InvalidInput(kind, id, b)

\* C21 as stated: on every protected route the gate runs before validation
\* and the handler: a request with invalid input (body or id) and a missing
\* or unverifiable token is answered at once with the gate's rejection, never
\* 400, and a request with invalid input and a valid token is answered 400.
C21_InvalidInputIs400 ==
  \A r \in Slots :
    (/\ req[r].kind \in ProtectedKinds /\ req[r].pc # "idle"
     /\ InvalidInput(req[r].kind, req[r].id, req[r].body))
    => IF Admitted(req[r].tok, req[r].at)
       THEN req[r].pc = "done" => req[r].status = 400
       ELSE /\ req[r].pc = "done"
            /\ req[r].status = GateStatus
            /\ req[r].status # 400
            /\ stores = req[r].pre

\* C21, amended: on every protected route a request with invalid input and a
\* missing or unverifiable token is answered at once with the gate's
\* rejection, never 400; with a valid token, input that the rules of the
\* route reject is answered 400 at once, and an :id that is no object id on
\* the comment update and delete routes, which have no rule for it, reaches
\* the handler and is answered 500.  In each case the stores are as the
\* request found them.
C21_GateBeforeValidation ==
  \A r \in Slots :
    (/\ req[r].kind \in ProtectedKinds /\ req[r].pc # "idle"
     /\ InvalidInput(req[r].kind, req[r].id, req[r].body))
    => /\ stores = req[r].pre
       /\ IF ~Admitted(req[r].tok, req[r].at)
          THEN req[r].pc = "done" /\ req[r].status = GateStatus /\ req[r].status # 400
          ELSE IF Rejected(req[r].kind, req[r].id, req[r].body)
          THEN req[r].pc = "done" /\ req[r].status = 400
          ELSE /\ req[r].kind \in {"comments_put", "comments_delete"}
               /\ req[r].pc = "done" => req[r].status = 500

\* A comment creation with an empty comment and no token was answered by the
\* gate.
C21_Witness ==
  \E r \in Slots :
    /\ Done(r, "comments_create") /\ req[r].tok = NoToken
    /\ ~commentCreateValid(req[r].body)
    /\ req[r].status = GateStatus

PutKinds == {"users_put", "posts_put", "comments_put"}
\* The collection a PUT route updates, in a triple of stores.
PutStore(kind, db) ==
  CASE kind = "users_put" -> db[1]
    [] kind = "posts_put" -> db[2]
    [] kind = "comments_put" -> db[3]
\* d is e with at most the fields of body b changed.
SameBut(d, e, b) ==
  /\ DOMAIN d = DOMAIN e
  /\ \A f \in DOMAIN e : f \notin DOMAIN b => d[f] = e[f]

FailsValidation(kind, id, b) ==
  CASE kind = "register" -> ~registerValid(b)
    [] kind = "login" -> ~loginValid(b)
    [] kind \in {"users_get", "posts_get", "posts_user"} -> ~IsMongoId(id)
    [] kind \in ProtectedKinds -> Rejected(kind, id, b)
    [] OTHER -> FALSE

\* C23: a request whose input fails the validation of its route (register,
\* login, post create, update, delete and get, user update, delete and get,
\* posts by user, comment create and update; on a protected route, after the
\* gate admitted it) is answered 400 at once: it is never suspended at a
\* database call of the handler, has read no record, is answered once, and
\* the three stores are as the request found them.
C23_InvalidInputNoDbAccess ==
  \A r \in Slots :
    (/\ req[r].pc # "idle"
     /\ req[r].kind \in ProtectedKinds => Admitted(req[r].tok, req[r].at)
     /\ FailsValidation(req[r].kind, req[r].id, req[r].body))
    => /\ req[r].pc = "done"
       /\ req[r].status = 400
       /\ req[r].sent = 1
       /\ req[r].found = {}
       /\ stores = req[r].pre

\* A registration with a password of five characters was answered 400.
C23_Witness ==
  \E r \in Slots :
    /\ Done(r, "register") /\ req[r].body.password = ShortPw
    /\ req[r].status = 400
    /\ users = PreUsers(r) /\ users # {}

====
